---- MODULE Spec2Model ----
(***************************************************************************)
(* Model of src/app.py (EncuestaEgresadosUTP): text normalisation, header  *)
(* detection, column classification, filtering, answer aggregation and the *)
(* report driver.                                                          *)
(*                                                                         *)
(* Text.  A Python str is a sequence of characters; a character is a       *)
(* one-token string.  ASCII characters stand for themselves.  The other    *)
(* code points the program's patterns and data need are written:           *)
(*    "a'" "e'" "i'" "o'" "u'"   U+00E1 U+00E9 U+00ED U+00F3 U+00FA        *)
(*    "A'" "E'" "I'" "O'" "U'"   U+00C1 U+00C9 U+00CD U+00D3 U+00DA        *)
(*    "n~" "N~"                  U+00F1 U+00D1                             *)
(*    "'"                        U+0301 COMBINING ACUTE ACCENT (Mn)        *)
(*    "~"                        U+0303 COMBINING TILDE (Mn)               *)
(*    "NBSP"                     U+00A0 NO-BREAK SPACE                     *)
(*    "TAB"                      U+0009                                    *)
(* A missing value (None / NaN / pd.NA) is the value NA.                   *)
(***************************************************************************)
EXTENDS Integers, Sequences, FiniteSets, TLC

VARIABLES
    pc,          \* position of the modelled call
    s,           \* norm: the argument
    norm_ret,    \* norm: norm(s)
    norm_ret2,   \* norm: norm(norm(s))
    texto,       \* normalize_beneficios: the argument
    benef_ret,   \* normalize_beneficios: the returned category
    csv_source,  \* load_data_with_header_detection: the argument
    header_row_idx, \* load_data_with_header_detection: the local
    df,          \* the Frame load_data_with_header_detection returns
    det,         \* detect_program_year_columns: what it returns or raises
    programa_sel, \* get_program_year_filters: the program chosen in the sidebar
    year_sel,    \* get_program_year_filters: the year chosen in the sidebar
    df_filt,     \* the filtered Frame get_program_year_filters returns
    answers,     \* chart_binary, chart_likert: the column df[col]
    chart,       \* chart_binary, chart_likert: what the call shows
    uploaded,    \* main: the file in the uploader, NoSource when there is none
    questions,   \* main: cfg["questions"]
    out,         \* main: what the run has put on the page so far, in order
    sec_i,       \* main: position of the loop over sections, 1-based
    q_i          \* main: position of the loop over preguntas_sec, 1-based

normVars == <<s, norm_ret, norm_ret2>>
benefVars == <<texto, benef_ret>>
loadVars == <<csv_source, header_row_idx>>
detVars == <<det>>
filterVars == <<programa_sel, year_sel, df_filt>>
chartVars == <<answers, chart>>
mainVars == <<uploaded, questions, out, sec_i, q_i>>

vars == <<pc, normVars, benefVars, loadVars, df, detVars, filterVars, chartVars, mainVars>>

-----------------------------------------------------------------------------
(* Bounds of the model *)

MaxLen == 3          \* longest argument of norm that is enumerated
MaxFrags == 2        \* most fragments an answer text is put together from
MaxCols == 3         \* most columns of a Frame given to the column classifier
MaxCore == 2         \* rows of a raw table that are not leading filler rows
MaxRows == 3         \* most rows of a Frame given to the filter engine
MaxAnswers == 3      \* most cells of an answer column given to a chart

-----------------------------------------------------------------------------
(* Characters *)

NA == <<"<NA>">>

UpperAscii == <<"A","B","C","D","E","F","G","H","I","J","K","L","M",
                "N","O","P","Q","R","S","T","U","V","W","X","Y","Z">>
LowerAscii == <<"a","b","c","d","e","f","g","h","i","j","k","l","m",
                "n","o","p","q","r","s","t","u","v","w","x","y","z">>
UpperPre == <<"A'","E'","I'","O'","U'","N~">>
LowerPre == <<"a'","e'","i'","o'","u'","n~">>
BasePre  == <<"a","e","i","o","u","n">>
UpperBasePre == <<"A","E","I","O","U","N">>
MarkPre  == <<"'","'","'","'","'","~">>

IndexOf(c, t) == CHOOSE i \in 1..Len(t) : t[i] = c
InSeq(c, t) == \E i \in 1..Len(t) : t[i] = c

\* str.isspace for one character: what str.strip() removes and \s matches
IsSpace(c) == c \in {" ", "TAB", "NBSP"}

\* str.lower for one character
LowerChar(c) ==
    IF InSeq(c, UpperAscii) THEN LowerAscii[IndexOf(c, UpperAscii)]
    ELSE IF InSeq(c, UpperPre) THEN LowerPre[IndexOf(c, UpperPre)]
    ELSE c

\* unicodedata.normalize("NFD", c) for one character
NFDChar(c) ==
    IF InSeq(c, LowerPre)
      THEN <<BasePre[IndexOf(c, LowerPre)], MarkPre[IndexOf(c, LowerPre)]>>
    ELSE IF InSeq(c, UpperPre)
      THEN <<UpperBasePre[IndexOf(c, UpperPre)], MarkPre[IndexOf(c, UpperPre)]>>
    ELSE <<c>>

\* unicodedata.category(c) == "Mn"
IsMn(c) == c \in {"'", "~"}

-----------------------------------------------------------------------------
(* Strings *)

RECURSIVE LStrip(_)
LStrip(t) == IF t # <<>> /\ IsSpace(Head(t)) THEN LStrip(Tail(t)) ELSE t

RECURSIVE RStrip(_)
RStrip(t) ==
    IF t # <<>> /\ IsSpace(t[Len(t)]) THEN RStrip(SubSeq(t, 1, Len(t) - 1)) ELSE t

\* str.strip()
Strip(t) == RStrip(LStrip(t))

\* str.replace("\u00A0", " ")
ReplaceNbsp(t) == [i \in 1..Len(t) |-> IF t[i] = "NBSP" THEN " " ELSE t[i]]

\* str.lower()
Lower(t) == [i \in 1..Len(t) |-> LowerChar(t[i])]

\* unicodedata.normalize("NFD", t); the order of marks does not matter to
\* the callers, which drop every mark
RECURSIVE NFD(_)
NFD(t) == IF t = <<>> THEN <<>> ELSE NFDChar(Head(t)) \o NFD(Tail(t))

\* "".join(ch for ch in t if unicodedata.category(ch) != "Mn")
NotMn(c) == ~IsMn(c)
DropMn(t) == SelectSeq(t, NotMn)

\* re.sub(r"\s+", " ", t)
RECURSIVE CollapseSpaces(_)
CollapseSpaces(t) ==
    IF t = <<>> THEN <<>>
    ELSE IF IsSpace(Head(t)) THEN <<" ">> \o CollapseSpaces(LStrip(Tail(t)))
    ELSE <<Head(t)>> \o CollapseSpaces(Tail(t))

\* p in t
Contains(p, t) ==
    \E i \in 0..(Len(t) - Len(p)) : SubSeq(t, i + 1, i + Len(p)) = p

\* all strings over the characters of `alphabet` of length at most n
RECURSIVE StringsUpTo(_, _)
StringsUpTo(alphabet, n) ==
    IF n = 0 THEN {<<>>}
    ELSE LET shorter == StringsUpTo(alphabet, n - 1)
         IN  shorter \cup {Append(t, c) : t \in shorter, c \in alphabet}

-----------------------------------------------------------------------------
(* Variables of the calls a specification does not make *)

\* Python's None, where a string is expected
None == <<"<None>">>

\* a Frame: its column names in order and its rows (each a sequence of
\* cells, one per column); err names the exception raised instead
Frame(columns, rows) == [err |-> "", columns |-> columns, rows |-> rows]
Raised(err) == [err |-> err, columns |-> <<>>, rows |-> <<>>]
NoFrame == Raised("not loaded")
NoSource == [kind |-> "none", rows |-> <<>>]
\* what a chart function shows: a bar chart of counts (with the caption of
\* chart_likert, the mean as a fraction), an st.info message, or the
\* exception it raises
Chart(counts, caption) == [kind |-> "chart", msg |-> "", counts |-> counts, caption |-> caption]
Info(msg) == [kind |-> "info", msg |-> msg, counts |-> <<>>, caption |-> <<0, 1>>]
ChartRaised(err) == [kind |-> "raised", msg |-> err, counts |-> <<>>, caption |-> <<0, 1>>]
NoChart == [kind |-> "not called", msg |-> "", counts |-> <<>>, caption |-> <<0, 1>>]
NoDet == [err |-> "not called", prog_col |-> None, year_col |-> None, headers |-> <<>>]

IdleNorm == s = <<>> /\ norm_ret = <<>> /\ norm_ret2 = <<>>
IdleBenef == texto = <<>> /\ benef_ret = <<>>
IdleLoad == csv_source = NoSource /\ header_row_idx = -1
IdleDet == det = NoDet
IdleFilter == programa_sel = None /\ year_sel = None /\ df_filt = NoFrame
IdleChart == answers = <<>> /\ chart = NoChart
IdleMain == uploaded = NoSource /\ questions = <<>> /\ out = <<>> /\ sec_i = 0 /\ q_i = 0

-----------------------------------------------------------------------------
(* norm, src/app.py 53-61 *)

norm(v) ==
    IF v = NA THEN <<>>
    ELSE CollapseSpaces(DropMn(NFD(Lower(Strip(ReplaceNbsp(v))))))

NormAlphabet == {"a", "A", "a'", "A'", "'", " ", "NBSP"}

InitNorm ==
    /\ pc = "norm"
    /\ s \in StringsUpTo(NormAlphabet, MaxLen) \cup {NA}
    /\ norm_ret = <<>>
    /\ norm_ret2 = <<>>
    /\ IdleBenef /\ IdleLoad /\ df = NoFrame /\ IdleDet /\ IdleFilter /\ IdleChart /\ IdleMain

\* t = norm(s)
NormOnce ==
    /\ pc = "norm"
    /\ norm_ret' = norm(s)
    /\ pc' = "norm_once"
    /\ UNCHANGED <<s, norm_ret2, benefVars, loadVars, df, detVars, filterVars, chartVars, mainVars>>

\* norm(t)
NormTwice ==
    /\ pc = "norm_once"
    /\ norm_ret2' = norm(norm_ret)
    /\ pc' = "norm_twice"
    /\ UNCHANGED <<s, norm_ret, benefVars, loadVars, df, detVars, filterVars, chartVars, mainVars>>

NextNorm == NormOnce \/ NormTwice

SpecNorm == InitNorm /\ [][NextNorm]_vars

-----------------------------------------------------------------------------
(* C9: norm is idempotent: for every string s over letters (upper and      *)
(* lower case, accented), spaces, non-breaking spaces and combining marks, *)
(* norm(norm(s)) = norm(s).                                                *)
C9_NormIdempotent == pc = "norm_twice" => norm_ret2 = norm_ret

\* norm always yields lower-case text without marks, non-breaking spaces or
\* runs of spaces (what the docstring promises)
NormShape ==
    pc = "norm_once" =>
        /\ \A i \in 1..Len(norm_ret) :
              /\ ~IsMn(norm_ret[i])
              /\ norm_ret[i] \notin {"NBSP", "TAB"}
              /\ LowerChar(norm_ret[i]) = norm_ret[i]
        /\ \A i \in 1..(Len(norm_ret) - 1) :
              ~(norm_ret[i] = " " /\ norm_ret[i + 1] = " ")

-----------------------------------------------------------------------------
(* normalize_beneficios, src/app.py 64-116 *)

\* the keywords looked for in t = norm(texto), rule by rule
KeysNinguno ==
    { <<"n","o"," ","a","p","l","i","c","a">>,
      <<"n","i","n","g","u","n","o">>,
      <<"n","i","n","g","u","n"," ">>,
      <<"n","i","n","g","u","n","o"," ","p","o","r"," ","e","l"," ","m","o","m","e","n","t","o">>,
      <<"n","o"," ","t","e","n","g","o"," ","c","o","n","o","c","i","m","i","e","n","t","o">>,
      <<"n","o"," ","c","o","n","o","z","c","o"," ","l","o","s"," ","b","e","n","e","f","i","c","i","o","s">>,
      <<"n","o"," ","c","o","n","o","z","c","o"," ","l","o","s"," ","b","e","n","e","f","i","c","i","o","s"," ","a","c","t","u","a","l","e","s">> }
KeysDescuentos ==
    { <<"d","e","s","c","u","e","n","t","o">>,
      <<"c","a","m","i","n","a","t","a","s"," ","e","c","o","l","o","g","i","c","a","s">> }
KeysVinculacion ==
    { <<"e","m","p","l","e","a","b","i","l","i","d","a","d">>,
      <<"v","i","n","c","u","l","a","c","i","o","n"," ","l","a","b","o","r","a","l">>,
      <<"b","o","l","s","a"," ","d","e"," ","e","m","p","l","e","o">>,
      <<"v","i","n","c","u","l","a","c","i","o","n"," ","a"," ","l","a"," ","b","o","l","s","a"," ","d","e"," ","e","m","p","l","e","o">> }
KeysInformacion ==
    { <<"i","n","f","o","r","m","a","c","i","o","n">> }
KeysActividades ==
    { <<"a","c","t","i","v","i","d","a","d","e","s"," ","d","e","p","o","r","t","i","v","a","s">>,
      <<"a","c","t","i","v","i","d","a","d","e","s"," ","c","u","l","t","u","r","a","l","e","s">>,
      <<"r","e","c","r","e","a","t","i","v","a","s">> }
KeyTodos ==
    <<"t","o","d","o","s">>

\* the accented keywords looked for in texto.lower()
KeyCaminatasAcc ==
    <<"c","a","m","i","n","a","t","a","s"," ","e","c","o","l","o'","g","i","c","a","s">>
KeyVinculacionAcc ==
    <<"v","i","n","c","u","l","a","c","i","o'","n"," ","l","a","b","o","r","a","l">>
KeyInformacionAcc ==
    <<"i","n","f","o","r","m","a","c","i","o'","n">>

\* the categories returned
CatNinguno ==
    <<"N","i","n","g","u","n","o"," ","/"," ","n","o"," ","c","o","n","o","c","e"," ","b","e","n","e","f","i","c","i","o","s">>
CatDescuentos ==
    <<"D","e","s","c","u","e","n","t","o","s"," ","y"," ","b","e","n","e","f","i","c","i","o","s"," ","e","c","o","n","o'","m","i","c","o","s">>
CatVinculacion ==
    <<"V","i","n","c","u","l","a","c","i","o'","n"," ","l","a","b","o","r","a","l"," ","/"," ","e","m","p","l","e","a","b","i","l","i","d","a","d">>
CatInformacion ==
    <<"I","n","f","o","r","m","a","c","i","o'","n"," ","y"," ","c","o","m","u","n","i","c","a","c","i","o'","n"," ","c","o","n"," ","e","g","r","e","s","a","d","o","s">>
CatActividades ==
    <<"A","c","t","i","v","i","d","a","d","e","s"," ","d","e","p","o","r","t","i","v","a","s",","," ","c","u","l","t","u","r","a","l","e","s"," ","y"," ","r","e","c","r","e","a","t","i","v","a","s">>
CatTodos ==
    <<"T","o","d","o","s"," ","l","o","s"," ","b","e","n","e","f","i","c","i","o","s">>

\* any(k in t for k in keys)
ContainsAny(keys, t) == \E k \in keys : Contains(k, t)

\* a bug a maintainer could introduce: the discount rule tried before the
\* none / not-applicable rule
normalize_beneficios_DescuentosFirst(v) ==
    LET t == norm(v) IN
    IF t = <<>> THEN <<>>
    ELSE IF ContainsAny(KeysDescuentos, t) \/ Contains(KeyCaminatasAcc, Lower(v))
      THEN CatDescuentos
    ELSE IF ContainsAny(KeysNinguno, t) THEN CatNinguno
    ELSE IF ContainsAny(KeysVinculacion, t) \/ Contains(KeyVinculacionAcc, Lower(v))
      THEN CatVinculacion
    ELSE IF ContainsAny(KeysInformacion, t) \/ Contains(KeyInformacionAcc, Lower(v))
      THEN CatInformacion
    ELSE IF ContainsAny(KeysActividades, t) THEN CatActividades
    ELSE IF t = KeyTodos THEN CatTodos
    ELSE Strip(v)

normalize_beneficios(v) ==
    LET t == norm(v) IN
    IF t = <<>> THEN <<>>
    ELSE IF ContainsAny(KeysNinguno, t) THEN CatNinguno
    ELSE IF ContainsAny(KeysDescuentos, t) \/ Contains(KeyCaminatasAcc, Lower(v))
      THEN CatDescuentos
    ELSE IF ContainsAny(KeysVinculacion, t) \/ Contains(KeyVinculacionAcc, Lower(v))
      THEN CatVinculacion
    ELSE IF ContainsAny(KeysInformacion, t) \/ Contains(KeyInformacionAcc, Lower(v))
      THEN CatInformacion
    ELSE IF ContainsAny(KeysActividades, t) THEN CatActividades
    ELSE IF t = KeyTodos THEN CatTodos
    ELSE Strip(v)

\* the answers of the documented examples
TxtNoTengo ==
    <<"N","o"," ","t","e","n","g","o"," ","c","o","n","o","c","i","m","i","e","n","t","o">>
TxtQuiero ==
    <<"Q","u","i","e","r","o"," ","d","e","s","c","u","e","n","t","o","s"," ","e","n"," ","m","a","t","r","i'","c","u","l","a">>
TxtAlgo ==
    <<"A","l","g","o"," ","t","o","t","a","l","m","e","n","t","e"," ","d","i","s","t","i","n","t","o">>

\* pieces answer texts are put together from: the examples, keywords of each
\* rule in several spellings (upper case, precomposed and decomposed
\* accents), filler, white space and a lone combining mark
Fragments ==
    { TxtNoTengo, TxtQuiero, TxtAlgo,
      <<"N","i","n","g","u","n","o">>,
      <<"n","i","n","g","u'","n">>,
      <<"D","E","S","C","U","E","N","T","O">>,
      <<"C","a","m","i","n","a","t","a","s"," ","E","c","o","l","O'","g","i","c","a","s">>,
      <<"v","i","n","c","u","l","a","c","i","o","'","n"," ","l","a","b","o","r","a","l">>,
      <<"I","n","f","o","r","m","a","c","i","o'","n">>,
      <<"r","e","c","r","e","a","t","i","v","a","s">>,
      <<"T","o","d","o","s">>,
      <<"y">>, <<" ">>, <<"NBSP">>, <<"'">> }

RECURSIVE Texts(_)
Texts(n) ==
    IF n = 0 THEN {<<>>}
    ELSE LET shorter == Texts(n - 1)
         IN  shorter \cup {t \o f : t \in shorter, f \in Fragments}

InitBenef ==
    /\ pc = "benef"
    /\ texto \in Texts(MaxFrags)
    /\ benef_ret = <<>>
    /\ IdleNorm /\ IdleLoad /\ df = NoFrame /\ IdleDet /\ IdleFilter /\ IdleChart /\ IdleMain

\* serie.apply(normalize_beneficios), one value
ApplyBeneficios ==
    /\ pc = "benef"
    /\ benef_ret' = normalize_beneficios(texto)
    /\ pc' = "benef_done"
    /\ UNCHANGED <<texto, normVars, loadVars, df, detVars, filterVars, chartVars, mainVars>>

NextBenef == ApplyBeneficios

SpecBenef == InitBenef /\ [][NextBenef]_vars

\* The rules as the specification lists them: an ordered list of (keywords
\* looked for in the normalised text, category).
BenefRules ==
    << [keys |-> KeysNinguno,     cat |-> CatNinguno],
       [keys |-> KeysDescuentos,  cat |-> CatDescuentos],
       [keys |-> KeysVinculacion, cat |-> CatVinculacion],
       [keys |-> KeysInformacion, cat |-> CatInformacion],
       [keys |-> KeysActividades, cat |-> CatActividades] >>

RuleHolds(i, t) ==
    IF i <= Len(BenefRules) THEN ContainsAny(BenefRules[i].keys, t)
    ELSE t = KeyTodos

FirstRuleCategory(v) ==
    LET t == norm(v)
        hit == {i \in 1..(Len(BenefRules) + 1) : RuleHolds(i, t)}
        first == CHOOSE i \in hit : \A j \in hit : i <= j
    IN  IF hit = {} THEN Strip(v)
        ELSE IF first <= Len(BenefRules) THEN BenefRules[first].cat
        ELSE CatTodos

BenefExamples ==
    /\ texto = TxtNoTengo => benef_ret = CatNinguno
    /\ texto = TxtQuiero => benef_ret = CatDescuentos
    /\ texto = TxtAlgo => benef_ret = TxtAlgo

(* C10 as stated: for every non-empty answer text the category is that of   *)
(* the first rule, in the fixed order, whose keyword test holds on the      *)
(* normalised text, and the trimmed original text when no rule matches;     *)
(* the three documented examples map as listed.                            *)
C10_FirstRuleWins_AnyNonEmptyText ==
    (pc = "benef_done" /\ texto # <<>>) =>
        /\ benef_ret = FirstRuleCategory(texto)
        /\ BenefExamples

(* C10 amended: the same for every answer text whose normalised form is    *)
(* not empty (a text of white space and combining marks alone normalises   *)
(* to the empty string and gets the empty category).                       *)
C10_FirstRuleWins ==
    (pc = "benef_done" /\ norm(texto) # <<>>) =>
        /\ benef_ret = FirstRuleCategory(texto)
        /\ BenefExamples

\* an answer with the keywords of two rules got the category of the earlier
C10_Witness ==
    /\ pc = "benef_done"
    /\ ContainsAny(KeysNinguno, norm(texto))
    /\ ContainsAny(KeysDescuentos, norm(texto))
    /\ benef_ret = CatNinguno

\* an answer no rule matches came back trimmed
C10_WitnessVerbatim ==
    /\ pc = "benef_done"
    /\ benef_ret = Strip(texto)
    /\ benef_ret # texto
    /\ norm(texto) # <<>>

-----------------------------------------------------------------------------
(* PROGRAM_PATTERNS, YEAR_PATTERNS, src/app.py 37-45 *)

PROGRAM_PATTERNS ==
    << <<"p","r","o","g","r","a","m","a">> >>
YEAR_PATTERNS ==
    << <<"a","n~","o","e","g","r","e","s","o">>,
       <<"a","n~","o"," ","e","g","r","e","s","o">>,
       <<"a","n","o","e","g","r","e","s","o">>,
       <<"a","n","o"," ","e","g","r","e","s","o">>,
       <<"a","n~","o"," ","d","e"," ","e","g","r","e","s","o">>,
       <<"a","n","o"," ","d","e"," ","e","g","r","e","s","o">> >>

\* any(p in n for p in patterns)
AnyPattern(patterns, n) == \E k \in 1..Len(patterns) : Contains(patterns[k], n)

-----------------------------------------------------------------------------
(* detect_program_year_columns, src/app.py 163-181 *)

\* a bug a maintainer could introduce: the patterns looked for in the column
\* name as it is written instead of in norm(c)
RECURSIVE DetectLoop_NoNorm(_, _, _, _)
DetectLoop_NoNorm(columns, i, prog_col, year_col) ==
    IF i > Len(columns) THEN <<prog_col, year_col>>
    ELSE LET c == columns[i]
             prog2 == IF prog_col = None /\ AnyPattern(PROGRAM_PATTERNS, c)
                      THEN c ELSE prog_col
             year2 == IF year_col = None /\ AnyPattern(YEAR_PATTERNS, c)
                      THEN c ELSE year_col
         IN  DetectLoop_NoNorm(columns, i + 1, prog2, year2)

\* the loop over df.columns from column i on; prog_col and year_col are the
\* locals so far
RECURSIVE DetectLoop(_, _, _, _)
DetectLoop(columns, i, prog_col, year_col) ==
    IF i > Len(columns) THEN <<prog_col, year_col>>
    ELSE LET c == columns[i]
             n == norm(c)
             prog2 == IF prog_col = None /\ AnyPattern(PROGRAM_PATTERNS, n)
                      THEN c ELSE prog_col
             year2 == IF year_col = None /\ AnyPattern(YEAR_PATTERNS, n)
                      THEN c ELSE year_col
         IN  DetectLoop(columns, i + 1, prog2, year2)

\* a bug a maintainer could introduce: the "is None" guards left out, so the
\* last matching column wins
RECURSIVE DetectLoop_LastWins(_, _, _, _)
DetectLoop_LastWins(columns, i, prog_col, year_col) ==
    IF i > Len(columns) THEN <<prog_col, year_col>>
    ELSE LET c == columns[i]
             n == norm(c)
             prog2 == IF AnyPattern(PROGRAM_PATTERNS, n) THEN c ELSE prog_col
             year2 == IF AnyPattern(YEAR_PATTERNS, n) THEN c ELSE year_col
         IN  DetectLoop_LastWins(columns, i + 1, prog2, year2)

detect_program_year_columns_LastWins(frame) ==
    LET found == DetectLoop_LastWins(frame.columns, 1, None, None) IN
    IF found[1] = None \/ found[2] = None
    THEN [err |-> "KeyError", prog_col |-> None, year_col |-> None,
          headers |-> frame.columns]
    ELSE [err |-> "", prog_col |-> found[1], year_col |-> found[2],
          headers |-> <<>>]

\* the returned pair, or the KeyError with the headers its message lists
detect_program_year_columns(frame) ==
    LET found == DetectLoop(frame.columns, 1, None, None) IN
    IF found[1] = None \/ found[2] = None
    THEN [err |-> "KeyError", prog_col |-> None, year_col |-> None,
          headers |-> frame.columns]
    ELSE [err |-> "", prog_col |-> found[1], year_col |-> found[2],
          headers |-> <<>>]

\* column names the classifier is tried on: matching and non-matching
\* spellings of both roles, one name matching both, one matching neither
ColNames ==
    { <<"P","r","o","g","r","a","m","a">>,
      <<"P","R","O","G","R","A","M","A"," ","A","C","A","D","E'","M","I","C","O">>,
      <<"A","n~","o"," ","E","g","r","e","s","o">>,
      <<"A","N~","O"," ","D","E"," ","E","G","R","E","S","O">>,
      <<"P","r","o","g","r","a","m","a"," ","y"," ","a","n~","o","e","g","r","e","s","o">>,
      <<"A","n~","o"," ","d","e","l"," ","e","g","r","e","s","o">>,
      <<"E","d","a","d">> }

InitCols ==
    /\ pc = "detect"
    /\ df \in {Frame(cols, <<>>) : cols \in StringsUpTo(ColNames, MaxCols)}
    /\ det = NoDet
    /\ IdleNorm /\ IdleBenef /\ IdleLoad /\ IdleFilter /\ IdleChart /\ IdleMain

\* prog_col, year_col = detect_program_year_columns(df)
Detect ==
    /\ pc = "detect"
    /\ det' = detect_program_year_columns(df)
    /\ pc' = IF det'.err = "" THEN "detected" ELSE "detect_raised"
    /\ UNCHANGED <<normVars, benefVars, loadVars, df, filterVars, chartVars, mainVars>>

NextCols == Detect

SpecCols == InitCols /\ [][NextCols]_vars

\* the positions of the columns whose normalised name contains a pattern
Matching(columns, patterns) ==
    {i \in 1..Len(columns) : AnyPattern(patterns, norm(columns[i]))}
Least(S) == CHOOSE i \in S : \A j \in S : i <= j

(* C2: the column classifier either returns one column per role, the first *)
(* column in column order whose normalised name contains a program pattern *)
(* and the first whose normalised name contains a year pattern, or, when a *)
(* role has no matching column, raises an error listing exactly the        *)
(* Frame's column names in order; it never returns with a role unresolved. *)
C2_ClassifierTotal ==
    LET progs == Matching(df.columns, PROGRAM_PATTERNS)
        years == Matching(df.columns, YEAR_PATTERNS)
    IN  /\ pc = "detected" =>
              /\ progs # {} /\ years # {}
              /\ det.prog_col = df.columns[Least(progs)]
              /\ det.year_col = df.columns[Least(years)]
              /\ det.prog_col # None /\ det.year_col # None
        /\ pc = "detect_raised" =>
              /\ progs = {} \/ years = {}
              /\ det.err = "KeyError"
              /\ det.headers = df.columns

\* two columns match the program role and the first of them was returned
C2_Witness ==
    /\ pc = "detected"
    /\ Cardinality(Matching(df.columns, PROGRAM_PATTERNS)) > 1
    /\ det.prog_col = df.columns[Least(Matching(df.columns, PROGRAM_PATTERNS))]
    /\ det.prog_col # df.columns[Len(df.columns)]

\* a role had no column and the error listed the headers
C2_WitnessRaised ==
    /\ pc = "detect_raised"
    /\ Len(df.columns) > 1
    /\ det.headers = df.columns

-----------------------------------------------------------------------------
(* load_data_with_header_detection, src/app.py 122-160 *)

\* the scan window: max_scan = min(n_rows, 50)
MAX_SCAN == 50

Min(a, b) == IF a <= b THEN a ELSE b

\* header_row_idx = None is written -1
NoHeader == -1

\* has_prog and has_year of one raw row
HasProg(row) == \E j \in 1..Len(row) : AnyPattern(PROGRAM_PATTERNS, norm(row[j]))
HasYear(row) == \E j \in 1..Len(row) : AnyPattern(YEAR_PATTERNS, norm(row[j]))

\* a bug a maintainer could introduce: the break left out, so the last
\* qualifying row of the window is kept
RECURSIVE ScanHeader_NoBreak(_, _, _)
ScanHeader_NoBreak(df_raw, i, max_scan) ==
    IF i >= max_scan THEN NoHeader
    ELSE LET later == ScanHeader_NoBreak(df_raw, i + 1, max_scan) IN
         IF later # NoHeader THEN later
         ELSE IF HasProg(df_raw[i + 1]) /\ HasYear(df_raw[i + 1]) THEN i
         ELSE NoHeader

\* for i in range(max_scan), from row index i (0-based) on: the index at
\* which the loop breaks, or NoHeader
RECURSIVE ScanHeader(_, _, _)
ScanHeader(df_raw, i, max_scan) ==
    IF i >= max_scan THEN NoHeader
    ELSE IF HasProg(df_raw[i + 1]) /\ HasYear(df_raw[i + 1]) THEN i
    ELSE ScanHeader(df_raw, i + 1, max_scan)

\* [str(h).replace(" ", " ").strip() for h in headers]
CleanHeaders(headers) == [j \in 1..Len(headers) |-> Strip(ReplaceNbsp(headers[j]))]

\* pd.read_csv with its defaults names an empty header cell "Unnamed: <j>"
\* and numbers the repetitions of a name ("x", "x.1", "x.2")
DigitChars == <<"0","1","2","3","4","5","6","7","8","9">>
UnnamedPrefix == <<"U","n","n","a","m","e","d",":"," ">>
PandasHeaderNames(header) ==
    LET named == [j \in 1..Len(header) |->
                    IF header[j] = <<>> THEN UnnamedPrefix \o <<DigitChars[j]>>
                    ELSE header[j]]
        seen(j) == Cardinality({k \in 1..(j - 1) : named[k] = named[j]})
    IN  [j \in 1..Len(header) |->
            IF seen(j) = 0 THEN named[j]
            ELSE named[j] \o <<".">> \o <<DigitChars[seen(j) + 1]>>]

\* pd.read_csv with its defaults reads these cells as NaN (those of its
\* default list the model's data can spell)
PandasNaValues ==
    { <<>>, <<"n","a","n">>, <<"N","a","N">>, <<"N","U","L","L">>,
      <<"n","u","l","l">>, <<"N","A">>, <<"N","/","A">> }
PandasCells(row) ==
    [j \in 1..Len(row) |-> IF row[j] \in PandasNaValues THEN NA ELSE row[j]]

\* the fallback, lines 153-155: a second pd.read_csv of the same source with
\* the first row as header.  A path is opened anew.  An uploaded file is a
\* stream that the read of line 131 left at its end, and pd.read_csv reads a
\* stream from where it stands: it finds nothing and raises EmptyDataError.
\* Cells are kept as text (the inference of numeric columns is not modelled).
FallbackRead(source) ==
    IF source.kind = "upload" THEN Raised("EmptyDataError")
    ELSE Frame(CleanHeaders(PandasHeaderNames(source.rows[1])),
               [k \in 1..(Len(source.rows) - 1) |-> PandasCells(source.rows[k + 1])])

\* the header index found (or NoHeader) and the Frame returned
load_data_with_header_detection(source) ==
    LET df_raw == source.rows
        n_rows == Len(df_raw)
        max_scan == Min(n_rows, MAX_SCAN)
        idx == ScanHeader(df_raw, 0, max_scan)
    IN  IF idx = NoHeader
        THEN [header_row_idx |-> NoHeader, df |-> FallbackRead(source)]
        ELSE [header_row_idx |-> idx,
              df |-> Frame(CleanHeaders(df_raw[idx + 1]),
                           SubSeq(df_raw, idx + 2, n_rows))]

\* rows of two cells that raw tables are made of
RowTitle == << <<"U","T","P">>, <<>> >>
RowData == << <<"S","i","s","t","e","m","a","s">>, <<"2","0","2","0">> >>
RowHeader == << <<"P","r","o","g","r","a","m","a">>,
                <<"A","n~","o"," ","E","g","r","e","s","o">> >>
RowKinds ==
    { RowTitle, RowData, RowHeader,
      \* upper case, surrounding blanks, a non-breaking space, a double space
      << <<" ","P","R","O","G","R","A","M","A"," ","A","C","A","D","E'","M","I","C","O"," ">>,
         <<"A","N~","O","NBSP","D","E"," "," ","E","G","R","E","S","O">> >>,
      \* one cell with both markers
      << <<"P","r","o","g","r","a","m","a"," ","y"," ","a","n~","o","e","g","r","e","s","o">>, <<>> >>,
      \* only the program marker
      << <<"P","r","o","g","r","a","m","a">>, <<"E","d","a","d">> >>,
      \* only the year marker
      << <<"E","d","a","d">>, <<"A","n","o"," ","d","e"," ","e","g","r","e","s","o">> >> }

RECURSIVE Repeat(_, _)
Repeat(row, n) == IF n = 0 THEN <<>> ELSE <<row>> \o Repeat(row, n - 1)

\* the documented scenario: 60 rows, the header at index 2
ExampleTable == Repeat(RowTitle, 2) \o <<RowHeader>> \o Repeat(RowData, 57)

\* raw tables: leading title rows up to and just past the scan window, then
\* up to MaxCore rows of any kind
RawTables ==
    { Repeat(RowTitle, k) \o core :
          k \in {0, 1, MAX_SCAN - 1, MAX_SCAN},
          core \in StringsUpTo(RowKinds, MaxCore) \ {<<>>} }
    \cup {ExampleTable}

InitLoad ==
    /\ pc = "load"
    /\ csv_source \in {[kind |-> kd, rows |-> t] :
                          kd \in {"path", "upload"}, t \in RawTables}
    /\ header_row_idx = NoHeader
    /\ df = NoFrame
    /\ IdleNorm /\ IdleBenef /\ IdleDet /\ IdleFilter /\ IdleChart /\ IdleMain

\* df = load_data_with_header_detection(uploaded)
LoadData ==
    /\ pc = "load"
    /\ LET r == load_data_with_header_detection(csv_source) IN
          /\ header_row_idx' = r.header_row_idx
          /\ df' = r.df
          /\ pc' = IF r.df.err # "" THEN "load_raised"
                   ELSE IF r.header_row_idx = NoHeader THEN "loaded_fallback"
                   ELSE "loaded"
    /\ UNCHANGED <<normVars, benefVars, csv_source, detVars, filterVars, chartVars, mainVars>>

NextLoad == LoadData

SpecLoad == InitLoad /\ [][NextLoad]_vars

\* the 0-based indices, among the first 50, of the rows with a cell whose
\* normalised text contains a program pattern and a cell whose normalised
\* text contains a year pattern
Qualifying(rows) ==
    {i \in 0..(Min(Len(rows), 50) - 1) : HasProg(rows[i + 1]) /\ HasYear(rows[i + 1])}

C1_WitnessBeyondWindow ==
    /\ pc = "loaded_fallback"
    /\ Len(csv_source.rows) > 50
    /\ HasProg(csv_source.rows[51]) /\ HasYear(csv_source.rows[51])

\* the fallback on an uploaded file raises instead of returning a Frame
FallbackOnUploadRaises ==
    (pc # "load" /\ header_row_idx = NoHeader /\ csv_source.kind = "upload")
        => pc = "load_raised" /\ df.err = "EmptyDataError"

-----------------------------------------------------------------------------
(* load_data_with_header_detection followed by detect_program_year_columns, *)
(* as main (line 615) and get_program_year_filters (line 188) call them     *)

\* prog_col, year_col = detect_program_year_columns(df) on the Frame that
\* load_data_with_header_detection returned
DetectLoaded ==
    /\ pc \in {"loaded", "loaded_fallback"}
    /\ det' = detect_program_year_columns(df)
    /\ pc' = IF det'.err = "" THEN "loaded_detected" ELSE "loaded_detect_raised"
    /\ UNCHANGED <<normVars, benefVars, loadVars, df, filterVars, chartVars, mainVars>>

NextLoadDetect == LoadData \/ DetectLoaded

SpecLoadDetect == InitLoad /\ [][NextLoadDetect]_vars

\* the positions of the cells of a raw row whose normalised text contains a
\* pattern
MatchingCells(row, patterns) ==
    {j \in 1..Len(row) : AnyPattern(patterns, norm(row[j]))}

(* C12: when the scan of the first 50 rows finds a header row, the column  *)
(* classifier applied to the resulting Frame does not raise the            *)
(* missing-column error and returns the names built from the first cell of *)
(* that header row matching the program patterns and from the first cell   *)
(* matching the year patterns; the missing-column error is raised only     *)
(* after the fallback.                                                     *)
C12_LocatorClassifierConsistent ==
    LET header == csv_source.rows[header_row_idx + 1]
        names == CleanHeaders(header)
    IN  /\ (pc \in {"loaded_detected", "loaded_detect_raised"}
              /\ header_row_idx # NoHeader) =>
              /\ pc = "loaded_detected"
              /\ det.err = ""
              /\ det.prog_col = names[Least(MatchingCells(header, PROGRAM_PATTERNS))]
              /\ det.year_col = names[Least(MatchingCells(header, YEAR_PATTERNS))]
        /\ pc = "loaded_detect_raised" =>
              /\ det.err = "KeyError"
              /\ header_row_idx = NoHeader

\* a header found below the first row, written in upper case with accents
\* and padding, whose two columns the classifier returned
C12_Witness ==
    /\ pc = "loaded_detected"
    /\ header_row_idx > 0
    /\ csv_source.rows[header_row_idx + 1] # df.columns
    /\ det.prog_col = df.columns[1]
    /\ det.year_col = df.columns[2]
    /\ norm(det.prog_col) # det.prog_col

\* the missing-column error after the fallback on a file given by its path
C12_WitnessRaised ==
    /\ pc = "loaded_detect_raised"
    /\ header_row_idx = NoHeader
    /\ csv_source.kind = "path"

-----------------------------------------------------------------------------
(* get_program_year_filters, src/app.py 187-254 *)

\* the code point of a character, which sorted() orders strings by
Ascii ==
    <<" ","!","QUOTE","#","$","%","&","APOSTROPHE","(",")","*","+",",","-",".","/",
      "0","1","2","3","4","5","6","7","8","9",":",";","<","=",">","?","@",
      "A","B","C","D","E","F","G","H","I","J","K","L","M","N","O","P","Q","R",
      "S","T","U","V","W","X","Y","Z","[","BACKSLASH","]","^","_","BACKTICK",
      "a","b","c","d","e","f","g","h","i","j","k","l","m","n","o","p","q","r",
      "s","t","u","v","w","x","y","z","{","|","}","TILDE">>
CodePoint(c) ==
    IF InSeq(c, Ascii) THEN 31 + IndexOf(c, Ascii)
    ELSE CASE c = "TAB" -> 9      [] c = "NBSP" -> 160
           [] c = "A'" -> 193     [] c = "E'" -> 201   [] c = "I'" -> 205
           [] c = "N~" -> 209     [] c = "O'" -> 211   [] c = "U'" -> 218
           [] c = "a'" -> 225     [] c = "e'" -> 233   [] c = "i'" -> 237
           [] c = "n~" -> 241     [] c = "o'" -> 243   [] c = "u'" -> 250
           [] c = "'" -> 769      [] c = "~" -> 771

\* a < b for two str
RECURSIVE StrLess(_, _)
StrLess(a, b) ==
    IF b = <<>> THEN FALSE
    ELSE IF a = <<>> THEN TRUE
    ELSE IF Head(a) # Head(b) THEN CodePoint(Head(a)) < CodePoint(Head(b))
    ELSE StrLess(Tail(a), Tail(b))

\* sorted(S) for a set of str
RECURSIVE SortedStrs(_)
SortedStrs(S) ==
    IF S = {} THEN <<>>
    ELSE LET least == CHOOSE a \in S : \A b \in S \ {a} : StrLess(a, b)
         IN  <<least>> \o SortedStrs(S \ {least})

Range(t) == {t[i] : i \in 1..Len(t)}

\* df[col]: the cells of the first column of that name
Column(frame, col) ==
    LET j == CHOOSE j \in 1..Len(frame.columns) : frame.columns[j] = col
    IN  [k \in 1..Len(frame.rows) |-> frame.rows[k][j]]

\* astype(str) of one cell: NaN becomes the text "nan"
AsStr(v) == IF v = NA THEN <<"n","a","n">> ELSE v

\* the values replaced by pd.NA in the program series, line 196-198
ProgNullValues ==
    { <<>>, <<"n","a","n">>, <<"N","a","N">>, <<"N","U","L","L">>,
      <<"n","u","l","l">> }

\* prog_series, lines 193-198
ProgSeries(frame, prog_col) ==
    LET cells == Column(frame, prog_col) IN
    [k \in 1..Len(cells) |->
        LET v == Strip(AsStr(cells[k])) IN
        IF v \in ProgNullValues THEN NA ELSE v]

\* programas, lines 201-207
Programas(frame, prog_col) == SortedStrs(Range(ProgSeries(frame, prog_col)) \ {NA})

\* years_raw, line 212, kept at the rows' positions: NA where dropna()
\* removed the row
YearsRaw(frame, year_col) ==
    LET cells == Column(frame, year_col) IN
    [k \in 1..Len(cells) |-> IF cells[k] = NA THEN NA ELSE Strip(cells[k])]

IsDigit(c) == InSeq(c, DigitChars)

\* whether (19\d{2}|20\d{2}|2100) matches val at position i (1-based)
YearAt(val, i) ==
    /\ i + 3 <= Len(val)
    /\ \/ /\ val[i] = "1" /\ val[i + 1] = "9"
          /\ IsDigit(val[i + 2]) /\ IsDigit(val[i + 3])
       \/ /\ val[i] = "2" /\ val[i + 1] = "0"
          /\ IsDigit(val[i + 2]) /\ IsDigit(val[i + 3])
       \/ SubSeq(val, i, i + 3) = <<"2","1","0","0">>

\* re.search(...).group(0): the leftmost match, or None
FirstYear(val) ==
    LET at == {i \in 1..Len(val) : YearAt(val, i)} IN
    IF at = {} THEN None ELSE SubSeq(val, Least(at), Least(at) + 3)

\* int(y) for a string of four digits
IntOf(y) ==
    1000 * (IndexOf(y[1], DigitChars) - 1) + 100 * (IndexOf(y[2], DigitChars) - 1)
      + 10 * (IndexOf(y[3], DigitChars) - 1) + (IndexOf(y[4], DigitChars) - 1)

\* sorted(S, key=int) for a set of distinct four-digit strings
RECURSIVE SortedYears(_)
SortedYears(S) ==
    IF S = {} THEN <<>>
    ELSE LET least == CHOOSE a \in S : \A b \in S : IntOf(a) <= IntOf(b)
         IN  <<least>> \o SortedYears(S \ {least})

\* years, lines 213-220
Years(frame, year_col) ==
    LET raw == YearsRaw(frame, year_col) IN
    SortedYears({FirstYear(raw[k]) : k \in {k \in 1..Len(raw) : raw[k] # NA}} \ {None})

TODOS_LOS_PROGRAMAS ==
    <<"T","o","d","o","s"," ","l","o","s"," ","p","r","o","g","r","a","m","a","s">>
TODOS ==
    <<"T","o","d","o","s">>

\* the options of the two select boxes, lines 225 and 235
OpcionesProg(frame, prog_col) == <<TODOS_LOS_PROGRAMAS>> \o Programas(frame, prog_col)
OpcionesYear(frame, year_col) == <<TODOS>> \o Years(frame, year_col)

\* a bug a maintainer could introduce: the year compared for equality
\* instead of searched for
FilterMask_YearEquals(frame, prog_col, year_col, prog_sel, yr_sel) ==
    LET prog_series == ProgSeries(frame, prog_col)
        years_raw == YearsRaw(frame, year_col)
    IN  [k \in 1..Len(frame.rows) |->
            /\ prog_sel # TODOS_LOS_PROGRAMAS => prog_series[k] = prog_sel
            /\ yr_sel # TODOS => years_raw[k] = yr_sel]

\* mask, lines 243-251: prog_series.eq() is False on pd.NA, and a row that
\* dropna() removed from years_raw is False after the alignment of "&"
FilterMask(frame, prog_col, year_col, prog_sel, yr_sel) ==
    LET prog_series == ProgSeries(frame, prog_col)
        years_raw == YearsRaw(frame, year_col)
    IN  [k \in 1..Len(frame.rows) |->
            /\ prog_sel # TODOS_LOS_PROGRAMAS =>
                  (prog_series[k] # NA /\ prog_series[k] = prog_sel)
            /\ yr_sel # TODOS =>
                  (years_raw[k] # NA /\ Contains(yr_sel, years_raw[k]))]

\* df[mask]: the rows whose mask is True, in order, from row k on
RECURSIVE Masked(_, _, _)
Masked(rows, mask, k) ==
    IF k > Len(rows) THEN <<>>
    ELSE (IF mask[k] THEN <<rows[k]>> ELSE <<>>) \o Masked(rows, mask, k + 1)

\* df_filtrado = df[mask].copy(), line 253
df_filtrado(frame, prog_col, year_col, prog_sel, yr_sel) ==
    Frame(frame.columns,
          Masked(frame.rows, FilterMask(frame, prog_col, year_col, prog_sel, yr_sel), 1))

\* rows the filter engine is tried on: program cell, year cell, an answer
CellSis == <<"S","i","s">>
CellInd == <<"I","n","d">>
FilterRows ==
    { <<CellSis, <<"2","0","1","9">>, <<"1">>>>,
      << <<" ","S","i","s","NBSP">>, <<"2","0","1","9","-","2","0","2","0">>, <<"2">>>>,
      <<CellInd, <<" ","2","0","2","0"," ">>, <<"3">>>>,
      <<CellInd, <<"s","/","f">>, <<"4">>>>,
      << <<"n","a","n">>, <<"2","0","1","9">>, <<"5">>>>,
      <<NA, <<"1","2","0","2","0","5">>, <<>>>>,
      <<CellSis, NA, <<"x">>>>,
      <<TODOS_LOS_PROGRAMAS, <<"2","1","0","0">>, <<"1">>>> }

ColPrograma == <<"P","r","o","g","r","a","m","a">>
ColAnoEgreso == <<"A","n~","o"," ","E","g","r","e","s","o">>
ColEdad == <<"E","d","a","d">>
ColP1 == <<"P","1">>

InitFilter ==
    /\ pc = "filters"
    /\ df \in {Frame(cols, rows) :
                  cols \in {<<ColPrograma, ColAnoEgreso, ColP1>>,
                            <<ColPrograma, ColEdad, ColP1>>},
                  rows \in StringsUpTo(FilterRows, MaxRows)}
    /\ det = NoDet
    /\ IdleFilter
    /\ IdleNorm /\ IdleBenef /\ IdleLoad /\ IdleChart /\ IdleMain

\* get_program_year_filters(df) with the two choices the operator makes in
\* the select boxes
GetFilters ==
    /\ pc = "filters"
    /\ det' = detect_program_year_columns(df)
    /\ det'.err = ""
    /\ \E psel \in Range(OpcionesProg(df, det'.prog_col)),
          ysel \in Range(OpcionesYear(df, det'.year_col)) :
          /\ programa_sel' = psel
          /\ year_sel' = ysel
          /\ df_filt' = df_filtrado(df, det'.prog_col, det'.year_col, psel, ysel)
    /\ pc' = "filtered"
    /\ UNCHANGED <<normVars, benefVars, loadVars, df, chartVars, mainVars>>

\* get_program_year_filters(df) when detect_program_year_columns raises
GetFiltersRaises ==
    /\ pc = "filters"
    /\ det' = detect_program_year_columns(df)
    /\ det'.err # ""
    /\ pc' = "filters_raised"
    /\ UNCHANGED <<normVars, benefVars, loadVars, df, filterVars, chartVars, mainVars>>

NextFilter == GetFilters \/ GetFiltersRaises

SpecFilter == InitFilter /\ [][NextFilter]_vars

\* the two axis predicates of a row, as the specification words them; the
\* program cell is the row's first cell and the year cell its second
ProgramAxis(row) ==
    \/ programa_sel = TODOS_LOS_PROGRAMAS
    \/ row[1] # NA /\ Strip(row[1]) = programa_sel
YearAxis(row) ==
    \/ year_sel = TODOS
    \/ row[2] # NA /\ Contains(year_sel, row[2])
BothAxes(row) == ProgramAxis(row) /\ YearAxis(row)

(* C3: the filtered Frame consists of exactly the rows, in original order  *)
(* and with all original columns, that satisfy the program predicate (true *)
(* for every row under the "all programs" sentinel, otherwise equality of  *)
(* the trimmed program cell with the selected value) and the year          *)
(* predicate (true for every row under the "all years" sentinel, otherwise *)
(* the year cell contains the selected year), so that selecting 2020       *)
(* includes a row whose year cell is "2019-2020".                          *)
C3_FilterIsConjunction ==
    pc = "filtered" =>
        /\ df_filt.columns = df.columns
        /\ df_filt.rows = SelectSeq(df.rows, BothAxes)

\* year 2020 was selected and a row whose year cell is "2019-2020" is in the
\* result, while another row was excluded
C3_Witness ==
    /\ pc = "filtered"
    /\ year_sel = <<"2","0","2","0">>
    /\ \E k \in 1..Len(df_filt.rows) :
          df_filt.rows[k][2] = <<"2","0","1","9","-","2","0","2","0">>
    /\ Len(df_filt.rows) < Len(df.rows)

\* the concrete candidates taken from the data
ProgramCandidates == Range(Programas(df, det.prog_col))
YearCandidates == Range(Years(df, det.year_col))

(* C11: for every Frame the "all programs" sentinel and the "all years"    *)
(* sentinel differ from every concrete candidate taken from the data, so   *)
(* that selecting a concrete program present in the data leaves only rows  *)
(* whose trimmed program cell equals it and never acts as "no filtering".  *)
C11_SentinelsDistinct ==
    pc = "filtered" =>
        /\ TODOS_LOS_PROGRAMAS \notin ProgramCandidates
        /\ TODOS \notin YearCandidates
        /\ programa_sel \in ProgramCandidates =>
              \A k \in 1..Len(df_filt.rows) :
                  ProgSeries(df_filt, det.prog_col)[k] = programa_sel

\* what the code guarantees: the year sentinel is no four-digit year, and a
\* concrete program other than the sentinel text is matched exactly
YearSentinelDistinct ==
    pc = "filtered" => TODOS \notin YearCandidates
ProgramExactUnlessSentinelText ==
    (pc = "filtered" /\ programa_sel \in ProgramCandidates \ {TODOS_LOS_PROGRAMAS}) =>
        \A k \in 1..Len(df_filt.rows) :
            ProgSeries(df_filt, det.prog_col)[k] = programa_sel

\* the program "Todos los programas" of the data was selected and rows of
\* other programs stayed in the result
SentinelCollision ==
    ~ ( /\ pc = "filtered"
        /\ programa_sel \in ProgramCandidates
        /\ \E k \in 1..Len(df_filt.rows) :
              ProgSeries(df_filt, det.prog_col)[k] # programa_sel )

-----------------------------------------------------------------------------
(* chart_binary, src/app.py 274-305 *)

\* df[col].dropna()
DropNa(cells) == SelectSeq(cells, LAMBDA v : v # NA)

\* .astype(str).str.strip()
StripAll(cells) == [k \in 1..Len(cells) |-> Strip(cells[k])]

\* yes_pattern and no_pattern: the alternatives of the two regular
\* expressions, matched over the whole value without regard to case
YES_ALTERNATIVES ==
    { <<"s","i">>, <<"s","i'">>, <<"t","r","u","e">>, <<"1">>, <<"x">> }
NO_ALTERNATIVES ==
    { <<"n","o">>, <<"f","a","l","s","e">>, <<"0">> }
YesMatch(v) == Lower(v) \in YES_ALTERNATIVES
NoMatch(v) == Lower(v) \in NO_ALTERNATIVES

LabelSi == <<"S","i'">>
LabelNo == <<"N","o">>

\* a bug a maintainer could introduce: re.IGNORECASE left out
BinaryLabel_CaseSensitive(v) ==
    IF v \in YES_ALTERNATIVES THEN LabelSi
    ELSE IF v \in NO_ALTERNATIVES THEN LabelNo
    ELSE v

\* the label appended to mapped for one value, lines 285-290
BinaryLabel(v) ==
    IF YesMatch(v) THEN LabelSi
    ELSE IF NoMatch(v) THEN LabelNo
    ELSE v

\* the distinct values of a sequence in the order of their first occurrence
RECURSIVE FirstSeen(_)
FirstSeen(t) ==
    IF t = <<>> THEN <<>>
    ELSE LET init == SubSeq(t, 1, Len(t) - 1)
             last == t[Len(t)]
         IN  IF last \in Range(init) THEN FirstSeen(init)
             ELSE Append(FirstSeen(init), last)

Occurrences(t, v) == Cardinality({i \in 1..Len(t) : t[i] = v})

\* a sequence of [label, count] sorted by falling count, equal counts in
\* the order given
RECURSIVE ByFallingCount(_)
ByFallingCount(pairs) ==
    IF pairs = <<>> THEN <<>>
    ELSE LET top == CHOOSE i \in 1..Len(pairs) :
                       /\ \A j \in 1..Len(pairs) : pairs[j].count <= pairs[i].count
                       /\ \A j \in 1..(i - 1) : pairs[j].count < pairs[i].count
         IN  <<pairs[top]>> \o
             ByFallingCount(SubSeq(pairs, 1, top - 1) \o SubSeq(pairs, top + 1, Len(pairs)))

\* pd.Series(t).value_counts()
ValueCounts(t) ==
    LET seen == FirstSeen(t) IN
    ByFallingCount([i \in 1..Len(seen) |->
                       [label |-> seen[i], count |-> Occurrences(t, seen[i])]])

MsgSinDatos == "Sin datos para esta pregunta."

chart_binary(cells) ==
    LET serie == StripAll(DropNa(cells)) IN
    IF serie = <<>> THEN Info(MsgSinDatos)
    ELSE Chart(ValueCounts([k \in 1..Len(serie) |-> BinaryLabel(serie[k])]), <<0, 1>>)

\* cells binary answers are made of
BinaryCells ==
    { NA, <<>>,
      <<"s","i">>, <<"S","I">>, <<" ","S","i'"," ">>, <<"s","i","'">>, <<"X">>,
      <<"n","o">>, <<"N","O","NBSP">>, <<"0">>,
      <<"s","i","n","o">>, <<"N","o"," ","s","e'">> }

InitBinary ==
    /\ pc = "binary"
    /\ answers \in StringsUpTo(BinaryCells, MaxAnswers)
    /\ chart = NoChart
    /\ IdleNorm /\ IdleBenef /\ IdleLoad /\ df = NoFrame /\ IdleDet /\ IdleFilter /\ IdleMain

\* chart_binary(df_filt, col, label)
ChartBinary ==
    /\ pc = "binary"
    /\ chart' = chart_binary(answers)
    /\ pc' = "binary_done"
    /\ UNCHANGED <<normVars, benefVars, loadVars, df, detVars, filterVars, answers, mainVars>>

NextBinary == ChartBinary

SpecBinary == InitBinary /\ [][NextBinary]_vars

\* the non-missing values of the column, trimmed
Trimmed(cells) ==
    LET present == SelectSeq(cells, LAMBDA v : v # NA) IN
    [k \in 1..Len(present) |-> Strip(present[k])]

CountOf(counts, label) ==
    IF \E i \in 1..Len(counts) : counts[i].label = label
    THEN counts[CHOOSE i \in 1..Len(counts) : counts[i].label = label].count
    ELSE 0

RECURSIVE SumCounts(_)
SumCounts(counts) ==
    IF counts = <<>> THEN 0 ELSE Head(counts).count + SumCounts(Tail(counts))

(* C8: every label of the binary distribution is "Si" (accented), "No" or  *)
(* a trimmed input value; the values counted under "Si" are exactly those  *)
(* that match si|si(accented)|true|1|x as a whole, in any case, those      *)
(* counted under "No" exactly those that match no|false|0; and the counts  *)
(* sum to the number of non-missing trimmed values.                        *)
C8_BinaryLabels ==
    LET vals == Trimmed(answers)
        yes == {k \in 1..Len(vals) : Lower(vals[k]) \in YES_ALTERNATIVES}
        no == {k \in 1..Len(vals) : Lower(vals[k]) \in NO_ALTERNATIVES}
    IN  (pc = "binary_done" /\ chart.kind = "chart") =>
          /\ \A i \in 1..Len(chart.counts) :
                chart.counts[i].label \in {LabelSi, LabelNo} \cup Range(vals)
          /\ CountOf(chart.counts, LabelSi) = Cardinality(yes)
          /\ CountOf(chart.counts, LabelNo) = Cardinality(no)
          /\ \A k \in (1..Len(vals)) \ (yes \cup no) :
                CountOf(chart.counts, vals[k]) = Occurrences(vals, vals[k])
          /\ SumCounts(chart.counts) = Len(vals)
          /\ \A i, j \in 1..Len(chart.counts) :
                i # j => chart.counts[i].label # chart.counts[j].label

\* upper-case and accented spellings were counted under the two labels next
\* to a value passed through
C8_Witness ==
    /\ pc = "binary_done"
    /\ chart.kind = "chart"
    /\ Len(chart.counts) = 3
    /\ CountOf(chart.counts, LabelSi) > 0
    /\ CountOf(chart.counts, LabelNo) > 0
    /\ \E k \in 1..Len(answers) : answers[k] = <<"S","I">>

-----------------------------------------------------------------------------
(* chart_likert, src/app.py 356-392 *)

\* str.replace(",", ".")
ReplaceComma(t) == [i \in 1..Len(t) |-> IF t[i] = "," THEN "." ELSE t[i]]

AllDigits(t) == \A i \in 1..Len(t) : IsDigit(t[i])

\* the number a string of digits spells
RECURSIVE DigitsValue(_)
DigitsValue(t) ==
    IF t = <<>> THEN 0
    ELSE 10 * DigitsValue(SubSeq(t, 1, Len(t) - 1)) + (IndexOf(t[Len(t)], DigitChars) - 1)

RECURSIVE Pow10(_)
Pow10(n) == IF n = 0 THEN 1 ELSE 10 * Pow10(n - 1)

\* what float() accepts besides digits, compared without regard to case
FloatNan == { <<"n","a","n">> }
FloatInf == { <<"i","n","f">>, <<"i","n","f","i","n","i","t","y">> }

\* float(t) for the spellings the model's data uses: surrounding white
\* space, a sign, digits with at most one point, nan, inf, infinity.
\* A finite value is sign * num / den with den a power of ten.
ParseFloat(t) ==
    LET u == Strip(t)
        signed == u # <<>> /\ Head(u) \in {"+", "-"}
        neg == u # <<>> /\ Head(u) = "-"
        body == IF signed THEN Tail(u) ELSE u
        dots == {i \in 1..Len(body) : body[i] = "."}
        int == IF dots = {} THEN body ELSE SubSeq(body, 1, Least(dots) - 1)
        frac == IF dots = {} THEN <<>> ELSE SubSeq(body, Least(dots) + 1, Len(body))
    IN  IF Lower(body) \in FloatNan
          THEN [ok |-> TRUE, kind |-> "nan", neg |-> neg, num |-> 0, den |-> 1]
        ELSE IF Lower(body) \in FloatInf
          THEN [ok |-> TRUE, kind |-> "inf", neg |-> neg, num |-> 0, den |-> 1]
        ELSE IF AllDigits(int) /\ AllDigits(frac) /\ Len(int) + Len(frac) > 0
          THEN [ok |-> TRUE, kind |-> "num", neg |-> neg,
                num |-> DigitsValue(int \o frac), den |-> Pow10(Len(frac))]
        ELSE [ok |-> FALSE, kind |-> "ValueError", neg |-> FALSE, num |-> 0, den |-> 1]

\* numeric, lines 362-368: the values float() accepted, in order
Numeric(serie) ==
    LET parsed == [k \in 1..Len(serie) |-> ParseFloat(ReplaceComma(serie[k]))]
    IN  SelectSeq(parsed, LAMBDA x : x.ok)

\* round() of a finite value, to the nearest integer, halves to the even one
RoundHalfEven(x) ==
    LET q == x.num \div x.den
        r == x.num % x.den
        mag == IF 2 * r > x.den THEN q + 1
               ELSE IF 2 * r = x.den THEN q + (q % 2)
               ELSE q
    IN  IF x.neg THEN 0 - mag ELSE mag

LIKERT_VALUES == <<1, 2, 3, 4, 5>>

\* a bug a maintainer could introduce: the reindex on 1..5 left out, so the
\* distribution has one entry per rounded value that occurs
LikertDistribution_NoReindex(rounded) ==
    LET present == {rounded[k] : k \in 1..Len(rounded)}
        RECURSIVE Asc(_)
        Asc(S) == IF S = {} THEN <<>>
                  ELSE LET least == CHOOSE a \in S : \A b \in S : a <= b
                       IN  <<least>> \o Asc(S \ {least})
        keys == Asc(present)
    IN  [i \in 1..Len(keys) |->
            [label |-> keys[i], count |-> Occurrences(rounded, keys[i])]]

\* value_counts().sort_index().reindex([1, 2, 3, 4, 5], fill_value=0): one
\* entry for each of 1..5, in that order; a rounded value outside 1..5 has
\* no entry
LikertDistribution(rounded) ==
    [i \in 1..Len(LIKERT_VALUES) |->
        [label |-> LIKERT_VALUES[i], count |-> Occurrences(rounded, LIKERT_VALUES[i])]]

\* s.mean() as the fraction <<numerator, denominator>>
RECURSIVE MaxDen(_)
MaxDen(numeric) ==
    IF numeric = <<>> THEN 1
    ELSE LET rest == MaxDen(Tail(numeric)) IN
         IF Head(numeric).den > rest THEN Head(numeric).den ELSE rest
RECURSIVE ScaledSum(_, _)
ScaledSum(numeric, d) ==
    IF numeric = <<>> THEN 0
    ELSE (IF Head(numeric).neg THEN 0 - 1 ELSE 1) * Head(numeric).num * (d \div Head(numeric).den)
         + ScaledSum(Tail(numeric), d)
Mean(numeric) ==
    <<ScaledSum(numeric, MaxDen(numeric)), MaxDen(numeric) * Len(numeric)>>

MsgNoEscala == "No se pudo interpretar la escala 1-5 en esta pregunta."

\* astype(int) raises on NaN and on infinity (line 375), before anything is
\* shown
chart_likert(cells) ==
    LET serie == DropNa(cells)
        numeric == Numeric(serie)
    IN  IF serie = <<>> THEN Info(MsgSinDatos)
        ELSE IF numeric = <<>> THEN Info(MsgNoEscala)
        ELSE IF \E k \in 1..Len(numeric) : numeric[k].kind # "num"
          THEN ChartRaised("IntCastingNaNError")
        ELSE Chart(LikertDistribution([k \in 1..Len(numeric) |-> RoundHalfEven(numeric[k])]),
                   Mean(numeric))

\* cells Likert answers are made of
LikertCells ==
    { NA, <<>>, <<"x">>,
      <<"1">>, <<"3">>, <<" ","4"," ">>, <<"5">>,
      <<"2",",","5">>, <<"3",".","5">>, <<"4",".","4">>,
      <<"0">>, <<"7">>, <<"-","1">>, <<"n","a","n">>, <<"i","n","f">> }

InitLikert ==
    /\ pc = "likert"
    /\ answers \in StringsUpTo(LikertCells, MaxAnswers)
    /\ chart = NoChart
    /\ IdleNorm /\ IdleBenef /\ IdleLoad /\ df = NoFrame /\ IdleDet /\ IdleFilter /\ IdleMain

\* chart_likert(df_filt, col, label)
ChartLikert ==
    /\ pc = "likert"
    /\ chart' = chart_likert(answers)
    /\ pc' = "likert_done"
    /\ UNCHANGED <<normVars, benefVars, loadVars, df, detVars, filterVars, answers, mainVars>>

NextLikert == ChartLikert

SpecLikert == InitLikert /\ [][NextLikert]_vars

\* the non-missing values of the column that parse as a number
Parsed(cells) ==
    SelectSeq(cells, LAMBDA v : v # NA /\ ParseFloat(ReplaceComma(v)).ok)

(* C7: for every answer column in which at least one non-missing value     *)
(* parses as a number, the distribution has exactly the 5 entries keyed    *)
(* 1, 2, 3, 4, 5 in ascending order and its counts sum to the number of    *)
(* successfully parsed values, those rounding outside 1..5 included.       *)
C7_LikertSumsToParsed ==
    (pc = "likert_done" /\ Parsed(answers) # <<>>) =>
        /\ chart.kind = "chart"
        /\ [i \in 1..Len(chart.counts) |-> chart.counts[i].label] = <<1, 2, 3, 4, 5>>
        /\ SumCounts(chart.counts) = Len(Parsed(answers))

\* what the code does instead: whenever it shows a distribution, the five
\* entries 1..5 count the parsed values that round into 1..5
LikertCountsInRange ==
    (pc = "likert_done" /\ chart.kind = "chart") =>
        /\ [i \in 1..Len(chart.counts) |-> chart.counts[i].label] = <<1, 2, 3, 4, 5>>
        /\ SumCounts(chart.counts) =
              Len(SelectSeq(Parsed(answers),
                            LAMBDA v : RoundHalfEven(ParseFloat(ReplaceComma(v))) \in 1..5))

\* a parsed value outside 1..5 is left out of the counts
LikertOutOfRangeDropped ==
    ~ ( /\ pc = "likert_done"
        /\ chart.kind = "chart"
        /\ SumCounts(chart.counts) < Len(Parsed(answers)) )

\* a value that float() reads as NaN or as an infinity makes the call raise
LikertNanRaises ==
    ~ (pc = "likert_done" /\ chart.kind = "raised")

-----------------------------------------------------------------------------
(* chart_categorical, chart_multi, chart_multi_from_cols,                  *)
(* src/app.py 260-268, 308-353, 395-438                                    *)

\* cfg.get("top_k_categories", 10) with the default
TOP_K == 10

\* .head(top_k)
HeadK(t, k) == SubSeq(t, 1, Min(Len(t), k))

\* the column whose answers normalize_beneficios groups, line 312
BENEFICIOS_COL ==
    <<"INVQ","Q","u","e'"," ","b","e","n","e","f","i","c","i","o","s"," ","t","e"," ",
      "g","u","s","t","a","r","i'","a"," ","o","b","t","e","n","e","r"," ","d","e"," ",
      "u","n","a"," ","a","s","o","c","i","a","c","i","o'","n"," ","d","e"," ",
      "e","g","r","e","s","a","d","o","s","?">>

chart_categorical(frame, col, top_k) ==
    LET stripped == StripAll([k \in 1..Len(DropNa(Column(frame, col))) |->
                                 AsStr(DropNa(Column(frame, col))[k])])
        serie == IF Strip(col) = BENEFICIOS_COL
                 THEN [k \in 1..Len(stripped) |-> normalize_beneficios(stripped[k])]
                 ELSE stripped
    IN  IF serie = <<>> THEN Info(MsgSinDatos)
        ELSE Chart(HeadK(ValueCounts(serie), top_k), <<0, 1>>)

\* re.split(r"[;,/]", t)
RECURSIVE SplitDelims(_)
SplitDelims(t) ==
    LET at == {i \in 1..Len(t) : t[i] \in {";", ",", "/"}} IN
    IF at = {} THEN <<t>>
    ELSE <<SubSeq(t, 1, Least(at) - 1)>> \o SplitDelims(SubSeq(t, Least(at) + 1, Len(t)))

\* split_multi_values, lines 260-268
RECURSIVE split_multi_values(_)
split_multi_values(series) ==
    IF series = <<>> THEN <<>>
    ELSE IF Head(series) = NA THEN split_multi_values(Tail(series))
    ELSE SelectSeq(StripAll(SplitDelims(Head(series))), LAMBDA part : part # <<>>)
         \o split_multi_values(Tail(series))

chart_multi(frame, col, top_k) ==
    LET serie == split_multi_values(Column(frame, col)) IN
    IF serie = <<>> THEN Info(MsgSinDatos)
    ELSE Chart(HeadK(ValueCounts(serie), top_k), <<0, 1>>)

MsgSinColumnas == "Sin columnas de opcion configuradas para esta pregunta."
MsgSinSeleccion == "Sin datos seleccionados para esta pregunta."

\* pd.to_numeric(v, errors="coerce") followed by fillna(0) is not 0
NonZero(v) ==
    /\ v # NA
    /\ LET x == ParseFloat(v) IN
       x.ok /\ (x.kind = "inf" \/ (x.kind = "num" /\ x.num # 0))

chart_multi_from_cols(frame, option_cols, top_k) ==
    LET present == SelectSeq(option_cols, LAMBDA c : c \in Range(frame.columns))
        data == [i \in 1..Len(present) |->
                    [label |-> present[i],
                     count |-> Cardinality({k \in 1..Len(frame.rows) :
                                               NonZero(Column(frame, present[i])[k])})]]
    IN  IF option_cols = <<>> THEN Info(MsgSinColumnas)
        ELSE IF data = <<>> THEN Info(MsgSinSeleccion)
        ELSE Chart(HeadK(ByFallingCount(data), top_k), <<0, 1>>)

-----------------------------------------------------------------------------
(* main, src/app.py 444-717: what one run of the script puts on the page   *)

\* str.upper for one character and for a string
UpperChar(c) ==
    IF InSeq(c, LowerAscii) THEN UpperAscii[IndexOf(c, LowerAscii)]
    ELSE IF InSeq(c, LowerPre) THEN UpperPre[IndexOf(c, LowerPre)]
    ELSE c
Upper(t) == [i \in 1..Len(t) |-> UpperChar(t[i])]

\* the question types of the dispatch, lines 683-693
BINARIA == <<"B","I","N","A","R","I","A">>
CATEGORICA == <<"C","A","T","E","G","O","R","I","C","A">>
MULTI == <<"M","U","L","T","I">>
LIKERT == <<"L","I","K","E","R","T">>
MULTI_COLS == <<"M","U","L","T","I","_","C","O","L","S">>

\* sections, line 653
SECTIONS == << <<"A">>, <<"B">>, <<"C">>, <<"D">>, <<"E">> >>

\* one element put on the page: kind says which call made it, q is the
\* position in cfg["questions"] of the question it belongs to (0 when it
\* belongs to none), text is the text the call interpolates, chart is what a
\* chart function showed
Element(kind, q, text, shown) == [kind |-> kind, q |-> q, text |-> text, chart |-> shown]

\* a question of cfg["questions"]; a key that is absent (or null) is None
Question(section, type, label, column, columns) ==
    [section |-> section, type |-> type, label |-> label,
     column |-> column, columns |-> columns]

\* q.get(key, default)
Get(v, default) == IF v = None THEN default ELSE v

\* the call of the dispatch, lines 683-701; df[col] raises KeyError for a
\* column the Frame does not have
Dispatch(k, q, frame) ==
    LET qtype == Upper(q.type)
        col == q.column
        has_col == col # None /\ col \in Range(frame.columns)
        shown(c) == Element("shown", k, col, c)
    IN  IF qtype = BINARIA
        THEN shown(IF has_col THEN chart_binary(Column(frame, col))
                   ELSE ChartRaised("KeyError"))
        ELSE IF qtype = CATEGORICA
        THEN shown(IF has_col THEN chart_categorical(frame, col, TOP_K)
                   ELSE ChartRaised("KeyError"))
        ELSE IF qtype = MULTI
        THEN shown(IF has_col THEN chart_multi(frame, col, TOP_K)
                   ELSE ChartRaised("KeyError"))
        ELSE IF qtype = LIKERT
        THEN shown(IF has_col THEN chart_likert(Column(frame, col))
                   ELSE ChartRaised("KeyError"))
        ELSE IF qtype = MULTI_COLS
        THEN shown(chart_multi_from_cols(frame, Get(q.columns, <<>>), TOP_K))
        ELSE Element("info_tipo_no_soportado", k, qtype, NoChart)

\* a bug a maintainer could introduce: the "continue" after the warning of
\* a missing column left out
QuestionOutput_NoContinue(k, q, frame) ==
    LET col == q.column
        missing == Upper(q.type) # MULTI_COLS
                     /\ (col = None \/ col = <<>> \/ col \notin Range(frame.columns))
    IN  (IF missing THEN <<Element("warning_columna", k, col, NoChart)>> ELSE <<>>)
        \o <<Element("heading", k, Get(q.label, <<>>), NoChart), Dispatch(k, q, frame)>>

\* the body of the loop over preguntas_sec for the question at position k,
\* lines 672-701
QuestionOutput(k, q, frame) ==
    LET col == q.column
        missing == Upper(q.type) # MULTI_COLS
                     /\ (col = None \/ col = <<>> \/ col \notin Range(frame.columns))
    IN  IF missing
        THEN <<Element("warning_columna", k, col, NoChart)>>
        ELSE <<Element("heading", k, Get(q.label, <<>>), NoChart), Dispatch(k, q, frame)>>

\* an exception left the chart function and ends the run
Raises(elements) == \E i \in 1..Len(elements) : elements[i].chart.kind = "raised"

\* preguntas_sec, line 664, as the positions in cfg["questions"]
RECURSIVE PreguntasFrom(_, _, _)
PreguntasFrom(qs, sec, k) ==
    IF k > Len(qs) THEN <<>>
    ELSE (IF Upper(Get(qs[k].section, <<>>)) = sec THEN <<k>> ELSE <<>>)
         \o PreguntasFrom(qs, sec, k + 1)
PreguntasSec(qs, sec) == PreguntasFrom(qs, sec, 1)

\* total == 0, line 648
NoResponses_Never(total) == FALSE
NoResponses(total) == total = 0

\* the most questions a configuration has
MaxQuestions == 2

ColP2 == <<"P","2">>
ColP9 == <<"P","9">>

\* the questions configurations are made of
QuestionKinds ==
    { Question(<<"A">>, <<"b","i","n","a","r","i","a">>, <<"L","1">>, ColP1, None),
      Question(<<"A">>, LIKERT, <<"L","2">>, ColP2, None),
      Question(<<"B">>, LIKERT, <<"L","3">>, ColP9, None),
      Question(<<"B">>, <<"F","O","O">>, <<"L","4">>, ColP1, None),
      Question(<<"A">>, <<"F","O","O">>, <<"L","5">>, None, None),
      Question(<<"e">>, MULTI_COLS, None, None, <<ColP2, ColP9>>),
      Question(None, BINARIA, <<"L","7">>, ColP1, None),
      Question(<<"C">>, CATEGORICA, <<"L","8">>, BENEFICIOS_COL, None),
      Question(<<"C">>, MULTI, <<"L","9">>, ColP1, None),
      Question(<<"D">>, MULTI_COLS, <<"L","1","0">>, None, None) }

\* the raw tables of the uploaded files: pd.read_csv(header=None, dtype=str,
\* keep_default_na=False) reads every cell as text, an empty one as ""
MainHeader == <<ColPrograma, ColAnoEgreso, ColP1, ColP2>>
MainTitle == << <<"U","T","P">>, <<>>, <<>>, <<>> >>
MainTables ==
    { \* two programs, two years, an answer float() reads as an infinity
      << MainHeader,
         <<CellSis, <<"2","0","1","9">>, <<"s","i">>, <<"4">>>>,
         <<CellInd, <<"2","0","2","0">>, <<"n","o","/","x">>, <<"i","n","f">>>> >>,
      \* a header and no answers
      << MainTitle, MainHeader >>,
      \* no header row
      << MainTitle, <<CellSis, <<"2","0","1","9">>, <<"s","i">>, <<"4">>>> >>,
      \* the benefits question
      << MainTitle,
         <<ColPrograma, ColAnoEgreso, BENEFICIOS_COL, ColP2>>,
         <<CellSis, <<"2","0","1","9">>, TxtNoTengo, <<"0">>>>,
         <<CellSis, <<"2","0","2","0">>, TxtQuiero, <<>>>> >> }

TODOS_LOS_ANOS == <<"T","o","d","o","s"," ","l","o","s"," ","a","n~","o","s">>

\* the contents of the text area, line 706
Conclusiones == { <<>>, <<" ">>, <<"o","k">> }

InitMain ==
    /\ pc = "main"
    /\ uploaded \in {NoSource} \cup {[kind |-> "upload", rows |-> t] : t \in MainTables}
    /\ questions \in StringsUpTo(QuestionKinds, MaxQuestions)
    /\ out = <<>>
    /\ sec_i = 0
    /\ q_i = 0
    /\ df = NoFrame
    /\ IdleNorm /\ IdleBenef /\ IdleLoad /\ IdleDet /\ IdleFilter /\ IdleChart

\* what every run shows first: the style sheet and the button, lines 464-594
PageTop ==
    << Element("markdown_css", 0, <<>>, NoChart),
       Element("button_filtros", 0, <<>>, NoChart) >>

\* lines 609-612: no file in the uploader
MainNoUpload ==
    /\ pc = "main"
    /\ uploaded = NoSource
    /\ out' = PageTop \o << Element("markdown_informe", 0, <<>>, NoChart),
                            Element("info_sube_archivo", 0, <<>>, NoChart) >>
    /\ pc' = "main_done"
    /\ UNCHANGED <<normVars, benefVars, loadVars, df, detVars, filterVars, chartVars,
                   uploaded, questions, sec_i, q_i>>

\* line 615: df = load_data_with_header_detection(uploaded)
MainLoad ==
    /\ pc = "main"
    /\ uploaded # NoSource
    /\ csv_source' = uploaded
    /\ LET r == load_data_with_header_detection(uploaded) IN
          /\ header_row_idx' = r.header_row_idx
          /\ df' = r.df
          /\ pc' = IF r.df.err # "" THEN "main_raised" ELSE "main_loaded"
    /\ out' = PageTop
    /\ UNCHANGED <<normVars, benefVars, detVars, filterVars, chartVars,
                   uploaded, questions, sec_i, q_i>>

\* lines 618-646: the filters, the logos and the cover
MainFilters ==
    /\ pc = "main_loaded"
    /\ det' = detect_program_year_columns(df)
    /\ IF det'.err # ""
       THEN /\ pc' = "main_raised"
            /\ UNCHANGED <<filterVars, out>>
       ELSE /\ \E psel \in Range(OpcionesProg(df, det'.prog_col)),
                  ysel \in Range(OpcionesYear(df, det'.year_col)) :
                  /\ programa_sel' = psel
                  /\ year_sel' = ysel
                  /\ df_filt' = df_filtrado(df, det'.prog_col, det'.year_col, psel, ysel)
                  /\ out' = out \o
                       << Element("markdown_logos", 0, <<>>, NoChart),
                          Element("markdown_portada", 0,
                                  <<psel, IF ysel # TODOS THEN ysel ELSE TODOS_LOS_ANOS>>,
                                  NoChart) >>
            /\ pc' = "main_portada"
    /\ UNCHANGED <<normVars, benefVars, loadVars, df, chartVars,
                   uploaded, questions, sec_i, q_i>>

\* total = len(df_filt), line 619
Total == Len(df_filt.rows)

\* lines 648-650: nothing left after the filter
MainNoRows ==
    /\ pc = "main_portada"
    /\ NoResponses(Total)
    /\ out' = Append(out, Element("warning_sin_respuestas", 0, <<>>, NoChart))
    /\ pc' = "main_done"
    /\ UNCHANGED <<normVars, benefVars, loadVars, df, detVars, filterVars, chartVars,
                   uploaded, questions, sec_i, q_i>>

\* line 663: the loop over sections is entered
MainSections ==
    /\ pc = "main_portada"
    /\ ~ NoResponses(Total)
    /\ sec_i' = 1
    /\ pc' = "main_section"
    /\ UNCHANGED <<normVars, benefVars, loadVars, df, detVars, filterVars, chartVars,
                   uploaded, questions, out, q_i>>

\* lines 664-669: one section; it is passed over when it has no question
MainSection ==
    /\ pc = "main_section"
    /\ sec_i <= Len(SECTIONS)
    /\ IF PreguntasSec(questions, SECTIONS[sec_i]) = <<>>
       THEN /\ sec_i' = sec_i + 1
            /\ UNCHANGED <<pc, out, q_i>>
       ELSE /\ out' = Append(out, Element("markdown_section", 0, SECTIONS[sec_i], NoChart))
            /\ q_i' = 1
            /\ pc' = "main_question"
            /\ UNCHANGED sec_i
    /\ UNCHANGED <<normVars, benefVars, loadVars, df, detVars, filterVars, chartVars,
                   uploaded, questions>>

\* lines 671-701: one question of the section; an exception ends the run
MainQuestion ==
    /\ pc = "main_question"
    /\ LET preguntas_sec == PreguntasSec(questions, SECTIONS[sec_i])
           k == preguntas_sec[q_i]
           shown == QuestionOutput(k, questions[k], df_filt)
       IN  /\ out' = out \o shown
           /\ IF Raises(shown)
              THEN /\ pc' = "main_raised"
                   /\ UNCHANGED <<sec_i, q_i>>
              ELSE IF q_i < Len(preguntas_sec)
              THEN /\ q_i' = q_i + 1
                   /\ UNCHANGED <<pc, sec_i>>
              ELSE /\ q_i' = 0
                   /\ sec_i' = sec_i + 1
                   /\ pc' = "main_section"
    /\ UNCHANGED <<normVars, benefVars, loadVars, df, detVars, filterVars, chartVars,
                   uploaded, questions>>

\* lines 704-717: the conclusions, with what the text area holds
MainConclusions ==
    /\ pc = "main_section"
    /\ sec_i > Len(SECTIONS)
    /\ \E conclusiones \in Conclusiones :
          out' = out \o
                 << Element("markdown_conclusiones", 0, <<>>, NoChart),
                    Element("text_area_conclusiones", 0, conclusiones, NoChart) >> \o
                 (IF Strip(conclusiones) # <<>>
                  THEN << Element("markdown_conclusiones_h3", 0, <<>>, NoChart),
                          Element("markdown_conclusiones_texto", 0, conclusiones, NoChart) >>
                  ELSE <<>>)
    /\ pc' = "main_done"
    /\ UNCHANGED <<normVars, benefVars, loadVars, df, detVars, filterVars, chartVars,
                   uploaded, questions, sec_i, q_i>>

NextMain ==
    \/ MainNoUpload
    \/ MainLoad
    \/ MainFilters
    \/ MainNoRows
    \/ MainSections
    \/ MainSection
    \/ MainQuestion
    \/ MainConclusions

SpecMain == InitMain /\ [][NextMain]_vars

\* the filters have been applied in this run
Filtered == df_filt.err = ""

\* what the report proper is made of: section titles, headings, charts and
\* notices of the questions, the conclusions
ReportKinds ==
    { "markdown_section", "heading", "shown", "info_tipo_no_soportado", "warning_columna",
      "markdown_conclusiones", "text_area_conclusiones",
      "markdown_conclusiones_h3", "markdown_conclusiones_texto" }
WarningKinds == { "warning_sin_respuestas", "warning_columna" }

KindCount(kinds) == Cardinality({i \in 1..Len(out) : out[i].kind \in kinds})

(* C4: in every run where the filtered Frame has zero rows, exactly one    *)
(* warning is surfaced and no section title, question heading, chart,      *)
(* question notice or conclusions block is produced after it (nor before); *)
(* in every run where the filtered Frame has at least one row, that        *)
(* warning is never produced.                                              *)
C4_ZeroRowsSingleWarning ==
    Filtered =>
        IF Total = 0
        THEN /\ KindCount(ReportKinds) = 0
             /\ pc = "main_done" =>
                   /\ KindCount(WarningKinds) = 1
                   /\ out[Len(out)].kind = "warning_sin_respuestas"
             /\ pc \in {"main_portada", "main_done"}
        ELSE KindCount({"warning_sin_respuestas"}) = 0

\* a run over answers and questions that the two filters leave no row of
C4_Witness ==
    /\ pc = "main_done"
    /\ Filtered /\ Total = 0
    /\ df.rows # <<>>
    /\ \E k \in 1..Len(questions) :
          Upper(Get(questions[k].section, <<>>)) \in Range(SECTIONS)
    /\ out[Len(out)].kind = "warning_sin_respuestas"

\* a finished run over at least one row
C4_WitnessRows ==
    /\ pc = "main_done"
    /\ Filtered /\ Total > 0
    /\ KindCount({"shown"}) > 0

\* the question at position k is one of sections A-E
InSections(k) == Upper(Get(questions[k].section, <<>>)) \in Range(SECTIONS)

\* the question at position k names a column the filtered Frame lacks
ColumnMissing(k) ==
    /\ questions[k].column \notin {None, <<>>}
    /\ questions[k].column \notin Range(df_filt.columns)

\* the single-column questions of sections A-E whose column is missing
Failing ==
    {k \in 1..Len(questions) :
        /\ Upper(questions[k].type) \in {BINARIA, CATEGORICA, MULTI, LIKERT}
        /\ InSections(k)
        /\ ColumnMissing(k)}

\* what the page holds for question k, and for the questions other than k
ElementsOf(k) == SelectSeq(out, LAMBDA e : e.q = k)
ElementsOfOthers(k) == SelectSeq(out, LAMBDA e : e.q \notin {0, k})

\* the positions of the questions of sections A-E other than skip, by
\* section and then in the order of the configuration
RECURSIVE OrderFrom(_, _)
OrderFrom(j, skip) ==
    IF j > Len(SECTIONS) THEN <<>>
    ELSE SelectSeq(PreguntasSec(questions, SECTIONS[j]), LAMBDA k : k # skip)
         \o OrderFrom(j + 1, skip)

\* what processing these questions one after the other shows, up to the
\* first exception
RECURSIVE Processed(_)
Processed(ks) ==
    IF ks = <<>> THEN <<>>
    ELSE LET shown == QuestionOutput(Head(ks), questions[Head(ks)], df_filt) IN
         IF Raises(shown) THEN shown ELSE shown \o Processed(Tail(ks))

Unsupported(k) ==
    Upper(questions[k].type) \notin {BINARIA, CATEGORICA, MULTI, LIKERT, MULTI_COLS}

Noticed(k) ==
    \E i \in 1..Len(out) : out[i].kind = "info_tipo_no_soportado" /\ out[i].q = k

(* C6: in a run that reaches its end over a non-empty filtered Frame,      *)
(* every question of sections A-E whose type is not a supported one has    *)
(* produced the "unsupported type" notice, whether its column is present,  *)
(* absent or missing from the Frame.                                       *)
C6_UnsupportedTypeNoticed ==
    (pc = "main_done" /\ Filtered /\ Total > 0) =>
        \A k \in 1..Len(questions) : (Unsupported(k) /\ InSections(k)) => Noticed(k)

\* what the code does: the notice is shown exactly when the question names
\* a column of the Frame; otherwise the question gets the warning of a
\* missing column
UnsupportedNoticedIffColumn ==
    (pc = "main_done" /\ Filtered /\ Total > 0) =>
        \A k \in 1..Len(questions) :
            (Unsupported(k) /\ InSections(k)) =>
                IF questions[k].column \in Range(df_filt.columns)
                THEN Noticed(k)
                ELSE ElementsOf(k) =
                        <<Element("warning_columna", k, questions[k].column, NoChart)>>

====
